---- MODULE Spec2Model ----
(***************************************************************************)
(* A model of custom_components/netatmo/sensor.py: the value classifiers,  *)
(* the device sensor (NetatmoSensor), the public area sensor               *)
(* (NetatmoPublicSensor) and the entity discovery of async_setup_entry.    *)
(*                                                                         *)
(* Numbers that the code rounds (Temperature, sum_rain_1, Pressure, the    *)
(* public readings) are fixed-point integers counted in hundredths; every  *)
(* other reading is the integer the vendor sends.                          *)
(***************************************************************************)
EXTENDS Integers, Sequences, FiniteSets, TLC

VARIABLES
    sensor,     \* the entity under refresh: its class, type, model/mode, _state
    snap,       \* the snapshot the latest operation on the entity read
    raised,     \* the exception the latest operation let escape ("" when none)
    op,         \* the latest operation on the entity
    angleIn,    \* process_angle: argument
    angleOut,   \* process_angle: returned string (a sequence of characters)
    battIn,     \* process_battery: arguments [data, model]
    battOut,    \* process_battery: returned value
    options,    \* entry.options[CONF_WEATHER_AREAS]: the configured area names
    hdata,      \* data_handler.data: which data class entries hold fetched data
    regs,       \* register_data_class calls made by discovery, per data class entry
    unregs,     \* unregister_data_class calls made by discovery, per data class entry
    setup,      \* position of async_setup_entry
    tasks,      \* running add_public_entities handlers
    devices,    \* device registry: the "Public Weather stations" devices of the entry
    entities,   \* the area entities the platform holds: <<area, sensor type>>
    pending     \* update signals sent and not yet dispatched

vars == <<sensor, snap, raised, op, angleIn, angleOut, battIn, battOut,
          options, hdata, regs, unregs, setup, tasks, devices, entities,
          pending>>

entityVars == <<sensor, snap, raised, op>>
angleVars == <<angleIn, angleOut>>
battVars == <<battIn, battOut>>
setupVars == <<options, hdata, regs, unregs, setup, tasks, devices, entities,
               pending>>

-----------------------------------------------------------------------------
(* Bounds of the model *)

MaxAngle == 359
MaxHealthIdx == 5
MaxStations == 3
MaxUpdates == 2

-----------------------------------------------------------------------------
(* Values: Python's None, numbers, string literals, formatted strings and  *)
(* a raised exception.                                                     *)

None == [k |-> "none"]
Num(n) == [k |-> "num", n |-> n]
Str(s) == [k |-> "str", s |-> s]
Chars(c) == [k |-> "chars", c |-> c]
Raise(e) == [k |-> "raise", e |-> e]

IsRaise(v) == v.k = "raise"

-----------------------------------------------------------------------------
(* Module constants *)

SUPPORTED_PUBLIC_SENSOR_TYPES ==
    <<"temperature", "pressure", "humidity", "rain", "windstrength",
      "guststrength", "sum_rain_1", "sum_rain_24">>

SENSOR_TYPES ==
    [temperature |-> "Temperature", co2 |-> "CO2", pressure |-> "Pressure",
     noise |-> "Noise", humidity |-> "Humidity", rain |-> "Rain",
     sum_rain_1 |-> "sum_rain_1", sum_rain_24 |-> "sum_rain_24",
     battery_vp |-> "Battery", battery_lvl |-> "Battery_lvl",
     battery_percent |-> "battery_percent", min_temp |-> "Min Temp.",
     max_temp |-> "Max Temp.", windangle |-> "Angle",
     windangle_value |-> "Angle Value", windstrength |-> "Wind Strength",
     gustangle |-> "Gust Angle", gustangle_value |-> "Gust Angle Value",
     guststrength |-> "Gust Strength", reachable |-> "Reachability",
     rf_status |-> "Radio", rf_status_lvl |-> "Radio_lvl",
     wifi_status |-> "Wifi", wifi_status_lvl |-> "Wifi_lvl",
     health_idx |-> "Health"]

MODULE_TYPE_OUTDOOR == "NAModule1"
MODULE_TYPE_WIND == "NAModule2"
MODULE_TYPE_RAIN == "NAModule3"
MODULE_TYPE_INDOOR == "NAModule4"

BATTERY_VALUES ==
    [NAModule2 |-> [Full |-> 5590, High |-> 5180, Medium |-> 4770, Low |-> 4360],
     NAModule3 |-> [Full |-> 5500, High |-> 5000, Medium |-> 4500, Low |-> 4000],
     NAModule4 |-> [Full |-> 5500, High |-> 5280, Medium |-> 4920, Low |-> 4560],
     NAModule1 |-> [Full |-> 5500, High |-> 5000, Medium |-> 4500, Low |-> 4000]]

PUBLIC == "public"

-----------------------------------------------------------------------------
(* Python's f"{angle}" for a non-negative int: its decimal digits. *)

DigitChar(d) == <<"0", "1", "2", "3", "4", "5", "6", "7", "8", "9">>[d + 1]

RECURSIVE FormatInt(_)
FormatInt(n) ==
    IF n < 10 THEN <<DigitChar(n)>>
    ELSE FormatInt(n \div 10) \o <<DigitChar(n % 10)>>

(* f"{label} ({angle}\xb0)" *)
FormatAngle(label, angle) ==
    label \o <<" ", "(">> \o FormatInt(angle) \o <<"°", ")">>

(* A faulty variant of process_angle: the N bucket starts one degree early *)
process_angle_329N(angle) ==
    IF angle >= 329 THEN FormatAngle(<<"N">>, angle)
    ELSE IF angle >= 300 THEN FormatAngle(<<"N", "W">>, angle)
    ELSE IF angle >= 240 THEN FormatAngle(<<"W">>, angle)
    ELSE IF angle >= 210 THEN FormatAngle(<<"S", "W">>, angle)
    ELSE IF angle >= 150 THEN FormatAngle(<<"S">>, angle)
    ELSE IF angle >= 120 THEN FormatAngle(<<"S", "E">>, angle)
    ELSE IF angle >= 60 THEN FormatAngle(<<"E">>, angle)
    ELSE IF angle >= 30 THEN FormatAngle(<<"N", "E">>, angle)
    ELSE FormatAngle(<<"N">>, angle)

(* process_angle: the thresholds are tried from 330 down *)
process_angle(angle) ==
    IF angle >= 330 THEN FormatAngle(<<"N">>, angle)
    ELSE IF angle >= 300 THEN FormatAngle(<<"N", "W">>, angle)
    ELSE IF angle >= 240 THEN FormatAngle(<<"W">>, angle)
    ELSE IF angle >= 210 THEN FormatAngle(<<"S", "W">>, angle)
    ELSE IF angle >= 150 THEN FormatAngle(<<"S">>, angle)
    ELSE IF angle >= 120 THEN FormatAngle(<<"S", "E">>, angle)
    ELSE IF angle >= 60 THEN FormatAngle(<<"E">>, angle)
    ELSE IF angle >= 30 THEN FormatAngle(<<"N", "E">>, angle)
    ELSE FormatAngle(<<"N">>, angle)

(* A faulty variant of process_battery: a reading equal to a threshold     *)
(* falls into the level below.                                             *)
process_battery_exclusive(data, model) ==
    IF model \notin DOMAIN BATTERY_VALUES THEN Raise("KeyError")
    ELSE LET values == BATTERY_VALUES[model] IN
         IF data > values["Full"] THEN Str("Full")
         ELSE IF data > values["High"] THEN Str("High")
         ELSE IF data > values["Medium"] THEN Str("Medium")
         ELSE IF data > values["Low"] THEN Str("Low")
         ELSE Str("Very Low")

(* process_battery: BATTERY_VALUES[model] raises KeyError for a model that *)
(* has no profile.                                                         *)
process_battery(data, model) ==
    IF model \notin DOMAIN BATTERY_VALUES THEN Raise("KeyError")
    ELSE LET values == BATTERY_VALUES[model] IN
         IF data >= values["Full"] THEN Str("Full")
         ELSE IF data >= values["High"] THEN Str("High")
         ELSE IF data >= values["Medium"] THEN Str("Medium")
         ELSE IF data >= values["Low"] THEN Str("Low")
         ELSE Str("Very Low")

(* No branch matches an index outside 0..4: the function falls off its end *)
(* and returns None.                                                       *)
process_health(health) ==
    IF health = 0 THEN Str("Healthy")
    ELSE IF health = 1 THEN Str("Fine")
    ELSE IF health = 2 THEN Str("Fair")
    ELSE IF health = 3 THEN Str("Poor")
    ELSE IF health = 4 THEN Str("Unhealthy")
    ELSE None

process_rf(strength) ==
    IF strength >= 90 THEN Str("Low")
    ELSE IF strength >= 76 THEN Str("Medium")
    ELSE IF strength >= 60 THEN Str("High")
    ELSE Str("Full")

process_wifi(strength) ==
    IF strength >= 86 THEN Str("Low")
    ELSE IF strength >= 71 THEN Str("Medium")
    ELSE IF strength >= 56 THEN Str("High")
    ELSE Str("Full")

(* round(x, 1) on a number of hundredths: the nearest tenth, a tie (which  *)
(* a binary float holds exactly only at .25 and .75) going to the even     *)
(* tenth.                                                                  *)
Round1(c) ==
    LET q == c \div 10
        r == c % 10
    IN  IF r < 5 THEN q * 10
        ELSE IF r > 5 THEN (q + 1) * 10
        ELSE IF q % 2 = 0 THEN q * 10 ELSE (q + 1) * 10

-----------------------------------------------------------------------------
(* NetatmoSensor: one measurement of one module *)

IdleSensor == [cls |-> "none"]

(* __init__: SENSOR_TYPES[sensor_type] raises KeyError for an unknown key; *)
(* otherwise the entity exists with _state None and _model device["type"]. *)
NetatmoSensor_init(sensor_type, device_type) ==
    IF sensor_type \notin DOMAIN SENSOR_TYPES THEN Raise("KeyError")
    ELSE [k |-> "entity", cls |-> "NetatmoSensor", type |-> sensor_type,
          model |-> device_type, state |-> None]

(* data[field]: the reading, or KeyError when the field is absent. An      *)
(* exception raised by the subscript passes through whatever is applied to *)
(* it, as the call is never made.                                          *)
Item(data, field) ==
    IF field \in DOMAIN data THEN Num(data[field]) ELSE Raise("KeyError")

Rounded(r) == IF IsRaise(r) THEN r ELSE Num(Round1(r.n))
Battery(r, model) == IF IsRaise(r) THEN r ELSE process_battery(r.n, model)
Angle(r) == IF IsRaise(r) THEN r ELSE Chars(process_angle(r.n))
Rf(r) == IF IsRaise(r) THEN r ELSE process_rf(r.n)
Wifi(r) == IF IsRaise(r) THEN r ELSE process_wifi(r.n)
Health(r) == IF IsRaise(r) THEN r ELSE process_health(r.n)

Pass == [k |-> "pass"]

(* The body of the try statement: the value assigned to _state, or the     *)
(* exception raised. Pass when no branch of the chain matches.             *)
SensorTryBody(type, data, model) ==
    CASE type = "temperature" -> Rounded(Item(data, "Temperature"))
      [] type = "humidity" -> Item(data, "Humidity")
      [] type = "rain" -> Item(data, "Rain")
      [] type = "sum_rain_1" -> Rounded(Item(data, "sum_rain_1"))
      [] type = "sum_rain_24" -> Item(data, "sum_rain_24")
      [] type = "noise" -> Item(data, "Noise")
      [] type = "co2" -> Item(data, "CO2")
      [] type = "pressure" -> Rounded(Item(data, "Pressure"))
      [] type = "battery_percent" -> Item(data, "battery_percent")
      [] type = "battery_lvl" -> Item(data, "battery_vp")
      [] type = "battery_vp" -> Battery(Item(data, "battery_vp"), model)
      [] type = "min_temp" -> Item(data, "min_temp")
      [] type = "max_temp" -> Item(data, "max_temp")
      [] type = "windangle_value" -> Item(data, "WindAngle")
      [] type = "windangle" -> Angle(Item(data, "WindAngle"))
      [] type = "windstrength" -> Item(data, "WindStrength")
      [] type = "gustangle_value" -> Item(data, "GustAngle")
      [] type = "gustangle" -> Angle(Item(data, "GustAngle"))
      [] type = "guststrength" -> Item(data, "GustStrength")
      [] type = "reachable" -> Item(data, "reachable")
      [] type = "rf_status_lvl" -> Item(data, "rf_status")
      [] type = "rf_status" -> Rf(Item(data, "rf_status"))
      [] type = "wifi_status_lvl" -> Item(data, "wifi_status")
      [] type = "wifi_status" -> Wifi(Item(data, "wifi_status"))
      [] type = "health_idx" -> Health(Item(data, "health_idx"))
      [] OTHER -> Pass

(* A faulty variant of NetatmoSensor_update: a missing record or field     *)
(* leaves the previous value in place.                                     *)
NetatmoSensor_update_keeps(self, s) ==
    IF s.k = "nodata" THEN [state |-> None, raised |-> ""]
    ELSE IF s.k = "norecord" THEN [state |-> self.state, raised |-> ""]
    ELSE LET r == SensorTryBody(self.type, s.rec, self.model) IN
         IF r = Pass THEN [state |-> self.state, raised |-> ""]
         ELSE IF IsRaise(r) THEN
              IF r.e = "KeyError" THEN [state |-> self.state, raised |-> ""]
              ELSE [state |-> self.state, raised |-> r.e]
         ELSE [state |-> r, raised |-> ""]

(* async_update_callback of a device sensor on snapshot s: the new _state  *)
(* and the exception that escapes ("" when none). s.k is "nodata" when     *)
(* self._data is None, "norecord" when get_last_data(...).get(self._id) is *)
(* None, and "record" with the module's readings s.rec otherwise.          *)
NetatmoSensor_update(self, s) ==
    IF s.k = "nodata" THEN [state |-> None, raised |-> ""]
    ELSE IF s.k = "norecord" THEN [state |-> None, raised |-> ""]
    ELSE LET r == SensorTryBody(self.type, s.rec, self.model) IN
         IF r = Pass THEN [state |-> self.state, raised |-> ""]
         ELSE IF IsRaise(r) THEN
              IF r.e = "KeyError" THEN [state |-> None, raised |-> ""]
              ELSE [state |-> self.state, raised |-> r.e]
         ELSE [state |-> r, raised |-> ""]

(* The available property *)
available(self) == self.state # None

-----------------------------------------------------------------------------
(* Inputs of the device sensor *)

SensorTypeInputs == DOMAIN SENSOR_TYPES \cup {"uv_index"}

DeviceTypes == DOMAIN BATTERY_VALUES \cup {"NAMain"}

FieldSeq ==
    <<"Temperature", "Humidity", "Rain", "sum_rain_1", "sum_rain_24", "Noise",
      "CO2", "Pressure", "battery_percent", "battery_vp", "min_temp",
      "max_temp", "WindAngle", "WindStrength", "GustAngle", "GustStrength",
      "reachable", "rf_status", "wifi_status", "health_idx">>

Fields == {FieldSeq[i] : i \in DOMAIN FieldSeq}

(* The readings tried for a field. Rounded fields are in hundredths: 21.27, *)
(* the ties 21.25, 21.75 and -5.25, and 0.                                  *)
FieldValues(f) ==
    CASE f \in {"Temperature", "sum_rain_1", "Pressure"} -> {0, 2127, 2125, 2175, -525}
      [] f = "battery_vp" -> {0, 3999, 4000, 5499, 5500, 5590}
      [] f \in {"WindAngle", "GustAngle"} -> {0, 29, 30, 329, 330, MaxAngle}
      [] f = "rf_status" -> {0, 59, 60, 75, 76, 89, 90}
      [] f = "wifi_status" -> {0, 55, 56, 70, 71, 85, 86}
      [] f = "health_idx" -> 0..MaxHealthIdx
      [] f = "reachable" -> {0, 1}
      [] OTHER -> {0, 42}

(* The reading every other field of a record carries: in the field's      *)
(* range, and none of the readings tried for any field.                    *)
OtherReadings ==
    [Temperature |-> 1830, Humidity |-> 61, Rain |-> 3, sum_rain_1 |-> 120,
     sum_rain_24 |-> 7, Noise |-> 38, CO2 |-> 640, Pressure |-> 101320,
     battery_percent |-> 83, battery_vp |-> 5250, min_temp |-> 9,
     max_temp |-> 24, WindAngle |-> 185, WindStrength |-> 13,
     GustAngle |-> 95, GustStrength |-> 27, reachable |-> 1,
     rf_status |-> 66, wifi_status |-> 63, health_idx |-> 2]

OtherReading(g) == OtherReadings[g]

RecordWith(f, v) == [g \in Fields |-> IF g = f THEN v ELSE OtherReading(g)]

RecordWithout(f) == [g \in Fields \ {f} |-> OtherReading(g)]

DeviceSnapshots ==
    {[k |-> "nodata"], [k |-> "norecord"]}
    \cup {[k |-> "record", rec |-> RecordWith(fv[1], fv[2])] :
            fv \in UNION {{f} \X FieldValues(f) : f \in Fields}}
    \cup {[k |-> "record", rec |-> RecordWithout(f)] : f \in Fields}
    \cup {[k |-> "record", rec |-> << >>]}

-----------------------------------------------------------------------------
(* NetatmoPublicSensor: one measurement aggregated over an area *)

(* __init__: SENSOR_TYPES[self.type] raises KeyError for an unknown key;   *)
(* neither SUPPORTED_PUBLIC_SENSOR_TYPES nor area.mode is looked at.       *)
NetatmoPublicSensor_init(sensor_type, mode) ==
    IF sensor_type \notin DOMAIN SENSOR_TYPES THEN Raise("KeyError")
    ELSE [k |-> "entity", cls |-> "NetatmoPublicSensor", type |-> sensor_type,
          mode |-> mode, model |-> PUBLIC, state |-> None]

AccessorSeq ==
    <<"get_latest_temperatures", "get_latest_pressures",
      "get_latest_humidities", "get_latest_rain", "get_60_min_rain",
      "get_24_h_rain", "get_latest_wind_strengths",
      "get_latest_gust_strengths">>

Accessors == {AccessorSeq[i] : i \in DOMAIN AccessorSeq}

Dict(d) == [k |-> "dict", d |-> d]

(* The accessor chain: the dict the accessor returns, or None when no      *)
(* branch matches the type.                                                *)
PublicData(type, maps) ==
    CASE type = "temperature" -> Dict(maps["get_latest_temperatures"])
      [] type = "pressure" -> Dict(maps["get_latest_pressures"])
      [] type = "humidity" -> Dict(maps["get_latest_humidities"])
      [] type = "rain" -> Dict(maps["get_latest_rain"])
      [] type = "sum_rain_1" -> Dict(maps["get_60_min_rain"])
      [] type = "sum_rain_24" -> Dict(maps["get_24_h_rain"])
      [] type = "windstrength" -> Dict(maps["get_latest_wind_strengths"])
      [] type = "guststrength" -> Dict(maps["get_latest_gust_strengths"])
      [] OTHER -> None

RECURSIVE SumOver(_, _)
SumOver(d, S) ==
    IF S = {} THEN 0
    ELSE LET x == CHOOSE x \in S : TRUE IN d[x].n + SumOver(d, S \ {x})

MaxOver(d, S) == CHOOSE m \in {d[x].n : x \in S} : \A x \in S : d[x].n <= m

(* round(total / count, 1) on hundredths: the nearest tenth. A mean that   *)
(* is an exact tie goes to the even tenth; the float quotient is that tie  *)
(* exactly when it ends in .25 or .75, which is every tie of up to four    *)
(* readings that are multiples of 0.25.                                    *)
RoundMean(total, count) ==
    LET q == total \div (10 * count)
        r == total % (10 * count)
    IN  IF 2 * r < 10 * count THEN q * 10
        ELSE IF 2 * r > 10 * count THEN (q + 1) * 10
        ELSE IF q % 2 = 0 THEN q * 10 ELSE (q + 1) * 10

(* The stations of d whose reading is not None *)
Values(d) == {x \in DOMAIN d : d[x] # None}

(* A faulty variant of Aggregate: the mean is taken over every station of  *)
(* the dict, the absent readings included.                                 *)
AggregateCountsAll(self, d) ==
    LET values == Values(d) IN
    IF self.mode = "avg" THEN
        IF values = {} THEN [state |-> self.state, raised |-> "ZeroDivisionError"]
        ELSE [state |-> Num(RoundMean(SumOver(d, values), Cardinality(DOMAIN d))),
              raised |-> ""]
    ELSE IF self.mode = "max" THEN
        IF values = {} THEN [state |-> self.state, raised |-> "ValueError"]
        ELSE [state |-> Num(MaxOver(d, values)), raised |-> ""]
    ELSE [state |-> self.state, raised |-> ""]

(* The aggregation: sum(values) / len(values) and max(values) both raise   *)
(* on an empty list; a mode that is neither avg nor max assigns nothing.   *)
Aggregate(self, d) ==
    LET values == Values(d) IN
    IF self.mode = "avg" THEN
        IF values = {} THEN [state |-> self.state, raised |-> "ZeroDivisionError"]
        ELSE [state |-> Num(RoundMean(SumOver(d, values), Cardinality(values))),
              raised |-> ""]
    ELSE IF self.mode = "max" THEN
        IF values = {} THEN [state |-> self.state, raised |-> "ValueError"]
        ELSE [state |-> Num(MaxOver(d, values)), raised |-> ""]
    ELSE [state |-> self.state, raised |-> ""]

(* async_update_callback of an area sensor on snapshot s: s.k is "nodata"  *)
(* when self._data is None, else s.maps gives each accessor's dict.        *)
NetatmoPublicSensor_update(self, s) ==
    IF s.k = "nodata" THEN [state |-> None, raised |-> ""]
    ELSE LET data == PublicData(self.type, s.maps) IN
         IF data = None \/ DOMAIN data.d = {} THEN [state |-> None, raised |-> ""]
         ELSE Aggregate(self, data.d)

-----------------------------------------------------------------------------
(* Inputs of the area sensor *)

(* Public readings in hundredths: 0, 10.0, 20.0 and 20.25, which is not a  *)
(* whole tenth and which a binary float holds exactly.                     *)
AreaReadings == {Num(0), Num(1000), Num(2000), Num(2025)}

SupportedTypes ==
    {SUPPORTED_PUBLIC_SENSOR_TYPES[i] : i \in DOMAIN SUPPORTED_PUBLIC_SENSOR_TYPES}

(* The aggregation reads only the values of the dict, so one dict is tried *)
(* per multiset of readings: stations 1..n, readings in the order of       *)
(* ReadingSeq.                                                             *)
ReadingSeq == <<Num(0), Num(1000), Num(2000), Num(2025), None>>

Rank(v) == CHOOSE i \in DOMAIN ReadingSeq : ReadingSeq[i] = v

StationMaps ==
    UNION {{m \in [1..n -> AreaReadings \cup {None}] :
                \A x \in 1..n : x < n => Rank(m[x]) <= Rank(m[x + 1])} :
           n \in 0..MaxStations}

(* The dict of accessor a in a snapshot built on m: the same stations, and *)
(* every reading of m raised by a whole number of units that is distinct   *)
(* per accessor, so that no two accessors return the same readings.        *)
AccessorMap(a, m) ==
    LET i == CHOOSE i \in DOMAIN AccessorSeq : AccessorSeq[i] = a IN
    [x \in DOMAIN m |-> IF m[x] = None THEN None ELSE Num(m[x].n + 100 * (i - 1))]

AreaSnapshots ==
    {[k |-> "nodata"]}
    \cup {[k |-> "data", maps |-> [a \in Accessors |-> AccessorMap(a, m)]] :
            m \in StationMaps}

PublicTypeInputs == SupportedTypes \cup {"co2", "uv_index"}

Modes == {"avg", "max", "min"}

-----------------------------------------------------------------------------
(* The entity under refresh *)

InitEntity ==
    /\ sensor = IdleSensor
    /\ snap = [k |-> "init"]
    /\ raised = ""
    /\ op = "init"

CreateSensor ==
    /\ sensor = IdleSensor
    /\ \E sensor_type \in SensorTypeInputs, device_type \in DeviceTypes :
        LET r == NetatmoSensor_init(sensor_type, device_type) IN
        /\ sensor' = IF IsRaise(r) THEN sensor ELSE r
        /\ raised' = IF IsRaise(r) THEN r.e ELSE ""
        /\ snap' = [k |-> "init", type |-> sensor_type]
    /\ op' = "init_sensor"

CreatePublicSensor ==
    /\ sensor = IdleSensor
    /\ \E sensor_type \in PublicTypeInputs, mode \in Modes :
        LET r == NetatmoPublicSensor_init(sensor_type, mode) IN
        /\ sensor' = IF IsRaise(r) THEN sensor ELSE r
        /\ raised' = IF IsRaise(r) THEN r.e ELSE ""
        /\ snap' = [k |-> "init", type |-> sensor_type]
    /\ op' = "init_public"

(* add_public_entities building one entity of an area: the type is one of  *)
(* SUPPORTED_PUBLIC_SENSOR_TYPES, the mode is the configured area's.       *)
AddPublicEntity ==
    /\ sensor = IdleSensor
    /\ \E sensor_type \in SupportedTypes, mode \in {"avg", "max"} :
        /\ sensor' = NetatmoPublicSensor_init(sensor_type, mode)
        /\ snap' = [k |-> "init", type |-> sensor_type]
    /\ raised' = ""
    /\ op' = "init_public"

UpdateSensor ==
    /\ sensor.cls = "NetatmoSensor"
    /\ \E s \in DeviceSnapshots :
        LET r == NetatmoSensor_update(sensor, s) IN
        /\ sensor' = [sensor EXCEPT !.state = r.state]
        /\ raised' = r.raised
        /\ snap' = s
    /\ op' = "update"

UpdatePublicSensor ==
    /\ sensor.cls = "NetatmoPublicSensor"
    /\ \E s \in AreaSnapshots :
        LET r == NetatmoPublicSensor_update(sensor, s) IN
        /\ sensor' = [sensor EXCEPT !.state = r.state]
        /\ raised' = r.raised
        /\ snap' = s
    /\ op' = "update"

-----------------------------------------------------------------------------
(* The classifiers on their own: an argument is drawn, the function is     *)
(* applied.                                                                *)

Angles == 0..MaxAngle

InitAngle ==
    /\ angleIn = 0
    /\ angleOut = << >>

CallProcessAngle ==
    \E angle \in Angles :
        /\ angleIn' = angle
        /\ angleOut' = process_angle(angle)

Profile(model) == BATTERY_VALUES[model]

Thresholds == {Profile(m)[l] : m \in DOMAIN BATTERY_VALUES,
                               l \in {"Full", "High", "Medium", "Low"}}

(* Every reading within one step of a threshold, and the two ends *)
BatteryReadings ==
    {0, 6000} \cup UNION {{t - 1, t, t + 1} : t \in Thresholds}

InitBattery ==
    /\ battIn = [data |-> 0, model |-> ""]
    /\ battOut = None

CallProcessBattery ==
    \E data \in BatteryReadings, model \in DeviceTypes :
        /\ battIn' = [data |-> data, model |-> model]
        /\ battOut' = process_battery(data, model)

-----------------------------------------------------------------------------
(* async_setup_entry: discovery of the device entities, then of the area   *)
(* entities, which every update of the config entry rebuilds. A coroutine  *)
(* runs from one await to the next in one step; the data handler's         *)
(* register_data_class and unregister_data_class are the awaits.           *)

DeviceDataClasses == <<"WeatherStationData", "HomeCoachData">>

AreaSeq == <<"A", "B">>

AreaNames == {AreaSeq[i] : i \in DOMAIN AreaSeq}

(* The data handler's entry of a public data class registered with *)
(* area_name: f"{data_class_name}-{area.area_name}"                *)
PublicEntry(data_class_name, area_name) == data_class_name \o "-" \o area_name

DataClassEntries ==
    {DeviceDataClasses[i] : i \in DOMAIN DeviceDataClasses}
    \cup {PublicEntry("PublicData", a) : a \in AreaNames}

(* entry.options[CONF_WEATHER_AREAS].values(), in the dict's order *)
RECURSIVE AreaList(_, _)
AreaList(S, i) ==
    IF i > Len(AreaSeq) THEN << >>
    ELSE (IF AreaSeq[i] \in S THEN <<AreaSeq[i]>> ELSE << >>) \o AreaList(S, i + 1)

(* The entities add_public_entities builds for one area *)
AreaEntities(area) == {<<area, t>> : t \in SupportedTypes}

TaskIds == 0..MaxUpdates

NoTask == [pc |-> "none"]

InitSetup ==
    /\ options \in SUBSET AreaNames
    /\ hdata = [c \in DataClassEntries |-> FALSE]
    /\ regs = [c \in DataClassEntries |-> 0]
    /\ unregs = [c \in DataClassEntries |-> 0]
    /\ setup = [pc |-> "find", cls |-> 1, updates |-> 0]
    /\ tasks = [i \in TaskIds |-> NoTask]
    /\ devices = {}
    /\ entities = {}
    /\ pending = 0

(* find_entities up to its first await: register_data_class is called; the *)
(* fetch it makes leaves data for the class or leaves none.                *)
FindRegister ==
    /\ setup.pc = "find"
    /\ LET name == DeviceDataClasses[setup.cls] IN
        /\ regs' = [regs EXCEPT ![name] = @ + 1]
        /\ \E fetched \in BOOLEAN : hdata' = [hdata EXCEPT ![name] = fetched]
    /\ setup' = [setup EXCEPT !.pc = "find_registered"]
    /\ UNCHANGED <<options, unregs, tasks, devices, entities, pending>>

(* After the last data class: async_add_entities, the dispatcher           *)
(* connection and the update listener, then add_public_entities is called. *)
AfterFind(cls) ==
    IF cls < Len(DeviceDataClasses)
    THEN [setup EXCEPT !.pc = "find", !.cls = cls + 1]
    ELSE [setup EXCEPT !.pc = "listening"]

(* find_entities after register_data_class returned: without data it      *)
(* returns []; with data it builds the entities and calls                  *)
(* unregister_data_class.                                                  *)
FindEntities ==
    /\ setup.pc = "find_registered"
    /\ LET name == DeviceDataClasses[setup.cls] IN
        IF ~hdata[name]
        THEN /\ setup' = AfterFind(setup.cls)
             /\ UNCHANGED unregs
        ELSE /\ unregs' = [unregs EXCEPT ![name] = @ + 1]
             /\ setup' = [setup EXCEPT !.pc = "find_unregistered"]
    /\ UNCHANGED <<options, hdata, regs, tasks, devices, entities, pending>>

FindReturn ==
    /\ setup.pc = "find_unregistered"
    /\ setup' = AfterFind(setup.cls)
    /\ UNCHANGED <<options, hdata, regs, unregs, tasks, devices, entities, pending>>

(* The end of add_public_entities: every public device of the entry is     *)
(* removed from the device registry, its entities with it, and the         *)
(* entities built are added when there are any.                            *)
ReplaceEntities(ents) ==
    /\ entities' = ents
    /\ devices' = {e[1] : e \in ents}

(* add_public_entities from its start to its first await *)
StartPublic(id) ==
    LET areas == AreaList(options, 1) IN
    IF areas = << >>
    THEN /\ ReplaceEntities({})
         /\ tasks' = [tasks EXCEPT ![id] = [pc |-> "done"]]
         /\ UNCHANGED regs
    ELSE /\ regs' = [regs EXCEPT ![PublicEntry("PublicData", areas[1])] = @ + 1]
         /\ tasks' = [tasks EXCEPT ![id] =
                [pc |-> "register", areas |-> areas, i |-> 1, ents |-> {}]]
         /\ UNCHANGED <<devices, entities>>

(* await add_public_entities() at the end of async_setup_entry *)
SetupPublic ==
    /\ setup.pc = "listening"
    /\ StartPublic(0)
    /\ setup' = [setup EXCEPT !.pc = "public"]
    /\ UNCHANGED <<options, hdata, unregs, pending>>

SetupReturn ==
    /\ setup.pc = "public"
    /\ tasks[0].pc = "done"
    /\ setup' = [setup EXCEPT !.pc = "done"]
    /\ UNCHANGED <<options, hdata, regs, unregs, tasks, devices, entities, pending>>

(* The config entry's options change; once the update listener is added,   *)
(* async_config_entry_updated sends the update signal.                     *)
UpdateOptions ==
    /\ setup.updates < MaxUpdates
    /\ \E new \in SUBSET AreaNames :
        /\ new # options
        /\ options' = new
    /\ setup' = [setup EXCEPT !.updates = @ + 1]
    /\ pending' = IF setup.pc \in {"public", "done"} THEN pending + 1 ELSE pending
    /\ UNCHANGED <<hdata, regs, unregs, tasks, devices, entities>>

(* The dispatcher runs add_public_entities for a signal sent *)
DispatchUpdate ==
    /\ pending > 0
    /\ \E id \in TaskIds \ {0} :
        /\ tasks[id].pc = "none"
        /\ \A j \in TaskIds \ {0} : j < id => tasks[j].pc # "none"
        /\ StartPublic(id)
    /\ pending' = pending - 1
    /\ UNCHANGED <<options, hdata, unregs, setup>>

(* register_data_class returned: the area's eight entities are built and   *)
(* unregister_data_class is called.                                        *)
PublicRegistered ==
    \E id \in TaskIds :
        /\ tasks[id].pc = "register"
        /\ LET t == tasks[id]
               area == t.areas[t.i]
           IN /\ unregs' = [unregs EXCEPT ![PublicEntry("PublicData", area)] = @ + 1]
              /\ tasks' = [tasks EXCEPT ![id] =
                    [t EXCEPT !.pc = "unregister",
                              !.ents = @ \cup AreaEntities(area)]]
        /\ UNCHANGED <<options, hdata, regs, setup, devices, entities, pending>>

(* unregister_data_class returned: the next area, or the end of the loop *)
PublicUnregistered ==
    \E id \in TaskIds :
        /\ tasks[id].pc = "unregister"
        /\ LET t == tasks[id] IN
            IF t.i < Len(t.areas)
            THEN /\ regs' = [regs EXCEPT
                        ![PublicEntry("PublicData", t.areas[t.i + 1])] = @ + 1]
                 /\ tasks' = [tasks EXCEPT ![id] =
                        [t EXCEPT !.pc = "register", !.i = @ + 1]]
                 /\ UNCHANGED <<devices, entities>>
            ELSE /\ ReplaceEntities(t.ents)
                 /\ tasks' = [tasks EXCEPT ![id] = [pc |-> "done"]]
                 /\ UNCHANGED regs
        /\ UNCHANGED <<options, hdata, unregs, setup, pending>>

-----------------------------------------------------------------------------
(* Specifications *)

Init == InitEntity /\ InitAngle /\ InitBattery /\ InitSetup /\ options = {}

Next ==
    \/ CreateSensor /\ UNCHANGED <<angleVars, battVars, setupVars>>
    \/ CreatePublicSensor /\ UNCHANGED <<angleVars, battVars, setupVars>>
    \/ UpdateSensor /\ UNCHANGED <<angleVars, battVars, setupVars>>
    \/ UpdatePublicSensor /\ UNCHANGED <<angleVars, battVars, setupVars>>

Spec == Init /\ [][Next]_vars

NextArea ==
    \/ AddPublicEntity /\ UNCHANGED <<angleVars, battVars, setupVars>>
    \/ UpdatePublicSensor /\ UNCHANGED <<angleVars, battVars, setupVars>>

SpecArea == Init /\ [][NextArea]_vars

NextAngle == CallProcessAngle /\ UNCHANGED <<entityVars, battVars, setupVars>>

SpecAngle == Init /\ [][NextAngle]_vars

NextBattery == CallProcessBattery /\ UNCHANGED <<entityVars, angleVars, setupVars>>

SpecBattery == Init /\ [][NextBattery]_vars

InitDiscovery == InitEntity /\ InitAngle /\ InitBattery /\ InitSetup

NextDiscovery ==
    \/ FindRegister /\ UNCHANGED <<entityVars, angleVars, battVars>>
    \/ FindEntities /\ UNCHANGED <<entityVars, angleVars, battVars>>
    \/ FindReturn /\ UNCHANGED <<entityVars, angleVars, battVars>>
    \/ SetupPublic /\ UNCHANGED <<entityVars, angleVars, battVars>>
    \/ SetupReturn /\ UNCHANGED <<entityVars, angleVars, battVars>>
    \/ UpdateOptions /\ UNCHANGED <<entityVars, angleVars, battVars>>
    \/ DispatchUpdate /\ UNCHANGED <<entityVars, angleVars, battVars>>
    \/ PublicRegistered /\ UNCHANGED <<entityVars, angleVars, battVars>>
    \/ PublicUnregistered /\ UNCHANGED <<entityVars, angleVars, battVars>>

SpecDiscovery == InitDiscovery /\ [][NextDiscovery]_vars

-----------------------------------------------------------------------------
(* What the properties below compare the entity with: the field-to-type    *)
(* mapping of the device sensor and the accessor of each public type, as   *)
(* the design states them.                                                 *)

MappingTable ==
    [temperature |-> <<"Temperature", "round1">>,
     humidity |-> <<"Humidity", "copy">>,
     rain |-> <<"Rain", "copy">>,
     sum_rain_1 |-> <<"sum_rain_1", "round1">>,
     sum_rain_24 |-> <<"sum_rain_24", "copy">>,
     noise |-> <<"Noise", "copy">>,
     co2 |-> <<"CO2", "copy">>,
     pressure |-> <<"Pressure", "round1">>,
     battery_percent |-> <<"battery_percent", "copy">>,
     battery_lvl |-> <<"battery_vp", "copy">>,
     battery_vp |-> <<"battery_vp", "classifyBattery">>,
     min_temp |-> <<"min_temp", "copy">>,
     max_temp |-> <<"max_temp", "copy">>,
     windangle_value |-> <<"WindAngle", "copy">>,
     windangle |-> <<"WindAngle", "classifyAngle">>,
     windstrength |-> <<"WindStrength", "copy">>,
     gustangle_value |-> <<"GustAngle", "copy">>,
     gustangle |-> <<"GustAngle", "classifyAngle">>,
     guststrength |-> <<"GustStrength", "copy">>,
     reachable |-> <<"reachable", "copy">>,
     rf_status_lvl |-> <<"rf_status", "copy">>,
     rf_status |-> <<"rf_status", "classifyRF">>,
     wifi_status_lvl |-> <<"wifi_status", "copy">>,
     wifi_status |-> <<"wifi_status", "classifyWifi">>,
     health_idx |-> <<"health_idx", "classifyHealth">>]

Transformed(transform, v, model) ==
    CASE transform = "copy" -> Num(v)
      [] transform = "round1" -> Num(Round1(v))
      [] transform = "classifyBattery" -> process_battery(v, model)
      [] transform = "classifyAngle" -> Chars(process_angle(v))
      [] transform = "classifyRF" -> process_rf(v)
      [] transform = "classifyWifi" -> process_wifi(v)
      [] transform = "classifyHealth" -> process_health(v)

AccessorTable ==
    [temperature |-> "get_latest_temperatures",
     pressure |-> "get_latest_pressures",
     humidity |-> "get_latest_humidities",
     rain |-> "get_latest_rain",
     sum_rain_1 |-> "get_60_min_rain",
     sum_rain_24 |-> "get_24_h_rain",
     windstrength |-> "get_latest_wind_strengths",
     guststrength |-> "get_latest_gust_strengths"]

IsDevice == sensor.cls = "NetatmoSensor"
IsArea == sensor.cls = "NetatmoPublicSensor"
Refreshed == op = "update"

(* The device sensor's owning record and its source field are in the       *)
(* snapshot the latest refresh read.                                       *)
DeviceFieldPresent ==
    /\ snap.k = "record"
    /\ MappingTable[sensor.type][1] \in DOMAIN snap.rec

(* The dict the area sensor's accessor returned to the latest refresh *)
AreaDict == snap.maps[AccessorTable[sensor.type]]

(* The stations of that dict whose reading is not absent *)
Remaining == {x \in DOMAIN AreaDict : AreaDict[x] # None}

AreaFieldPresent ==
    /\ snap.k = "data"
    /\ sensor.type \in DOMAIN AccessorTable
    /\ Remaining # {}

-----------------------------------------------------------------------------
(* C1: after a refresh of a device sensor or an area sensor, the value is  *)
(* none if and only if the refresh found no field for the sensor in the    *)
(* snapshot; a present field never yields none.                            *)
C1_NoneIffNoField ==
    Refreshed =>
        /\ IsDevice => (sensor.state = None <=> ~DeviceFieldPresent)
        /\ IsArea => (sensor.state = None <=> ~AreaFieldPresent)

(* C2: an area sensor in avg or max mode whose accessor returns no reading *)
(* that is not absent (an empty dict, or a dict of absent readings only)   *)
(* ends its refresh with the value none and without raising.               *)
C2_EmptyIsUnavailable ==
    (/\ Refreshed /\ IsArea /\ snap.k = "data"
     /\ sensor.mode \in {"avg", "max"}
     /\ sensor.type \in DOMAIN AccessorTable
     /\ Remaining = {})
        => (sensor.state = None /\ raised = "")

(* C4: no entity exists whose sensor type is outside the descriptor table, *)
(* and no area entity exists whose type is not one of the 8 public types   *)
(* or whose aggregation mode is not avg or max: construction raised.       *)
C4_InvalidConstructionIsFatal ==
    /\ IsDevice => sensor.type \in DOMAIN SENSOR_TYPES
    /\ IsArea => /\ sensor.type \in SupportedTypes
                 /\ sensor.mode \in {"avg", "max"}

(* C5: after a device sensor's refresh on a snapshot that holds its record *)
(* and its source field, the value is the transform the mapping table      *)
(* gives for the type, applied to the field the table names.               *)
C5_ValueIsTableTransform ==
    (Refreshed /\ IsDevice /\ DeviceFieldPresent) =>
        LET row == MappingTable[sensor.type] IN
        sensor.state = Transformed(row[2], snap.rec[row[1]], sensor.model)

(* C6: a device sensor's refresh never raises; on a snapshot without data, *)
(* without the record or without the field it leaves the value none and    *)
(* available false; and a refresh on the snapshot the previous refresh     *)
(* read leaves the value as that refresh left it.                          *)
C6_RefreshIdempotent ==
    [][(op' = "update" /\ sensor'.cls = "NetatmoSensor") =>
        /\ raised' = ""
        /\ ~DeviceFieldPresent' => (sensor'.state = None /\ ~available(sensor'))
        /\ (op = "update" /\ snap' = snap) => sensor'.state = sensor.state]_vars

(* A field the temperature sensor had read is missing from the next record *)
C6_Witness ==
    /\ Refreshed /\ IsDevice
    /\ sensor.type = "temperature"
    /\ snap.k = "record" /\ "Temperature" \notin DOMAIN snap.rec
    /\ "Humidity" \in DOMAIN snap.rec
    /\ sensor.state = None

(* C8: when a reading remains after the absent ones are dropped, avg mode  *)
(* sets the value to the mean of the remaining readings rounded to one     *)
(* decimal (a whole tenth no further than 0.05 from the mean) and max mode *)
(* sets it to the largest remaining reading, unrounded.                    *)
C8_Aggregates ==
    (Refreshed /\ IsArea /\ AreaFieldPresent) =>
        LET count == Cardinality(Remaining)
            total == SumOver(AreaDict, Remaining)
            v == sensor.state
        IN  /\ sensor.mode = "avg" =>
                /\ v.k = "num"
                /\ v.n % 10 = 0
                /\ 2 * (v.n * count - total) <= 10 * count
                /\ 2 * (total - v.n * count) <= 10 * count
            /\ sensor.mode = "max" =>
                /\ v.k = "num"
                /\ \E x \in Remaining : AreaDict[x].n = v.n
                /\ \A x \in Remaining : AreaDict[x].n <= v.n

(* Temperatures {1: 10.0, 2: 20.0, 3: none} averaged to 15.0 *)
C8_Witness ==
    /\ Refreshed /\ IsArea
    /\ sensor.type = "temperature" /\ sensor.mode = "avg"
    /\ snap.k = "data"
    /\ AreaDict = <<Num(1000), Num(2000), None>>
    /\ sensor.state = Num(1500)

-----------------------------------------------------------------------------
(* Reading a formatted angle back *)

CompassLabels ==
    {<<"N">>, <<"N", "E">>, <<"E">>, <<"S", "E">>, <<"S">>, <<"S", "W">>,
     <<"W">>, <<"N", "W">>}

Digits == {DigitChar(d) : d \in 0..9}

DigitValue(c) == CHOOSE d \in 0..9 : DigitChar(d) = c

RECURSIVE ParseInt(_)
ParseInt(s) ==
    IF Len(s) = 1 THEN DigitValue(s[1])
    ELSE 10 * ParseInt(SubSeq(s, 1, Len(s) - 1)) + DigitValue(s[Len(s)])

(* s is label, " (", the decimal digits of angle, degree sign, ")" *)
IsLabelled(s, label, angle) ==
    LET n == Len(label)
        digits == SubSeq(s, n + 3, Len(s) - 2)
    IN  /\ Len(s) >= n + 5
        /\ SubSeq(s, 1, n) = label
        /\ s[n + 1] = " " /\ s[n + 2] = "("
        /\ s[Len(s) - 1] = "°" /\ s[Len(s)] = ")"
        /\ \A i \in DOMAIN digits : digits[i] \in Digits
        /\ Len(digits) > 1 => digits[1] # "0"
        /\ ParseInt(digits) = angle

Called == angleOut # << >>

(* The string returned is one compass label, and only one, with the angle  *)
(* passed in.                                                              *)
OneLabelWithAngle ==
    /\ \E label \in CompassLabels : IsLabelled(angleOut, label, angleIn)
    /\ \A l1, l2 \in CompassLabels :
        (IsLabelled(angleOut, l1, angleIn) /\ IsLabelled(angleOut, l2, angleIn))
            => l1 = l2

(* C3 as stated: for every angle of 0..359 process_angle returns one of    *)
(* the 8 compass labels followed by the angle in parentheses, with         *)
(* 29 -> N, 30 -> NE, 329 -> N, 330 -> N.                                  *)
C3_AngleLabels ==
    Called =>
        /\ OneLabelWithAngle
        /\ angleIn = 29 => IsLabelled(angleOut, <<"N">>, 29)
        /\ angleIn = 30 => IsLabelled(angleOut, <<"N", "E">>, 30)
        /\ angleIn = 329 => IsLabelled(angleOut, <<"N">>, 329)
        /\ angleIn = 330 => IsLabelled(angleOut, <<"N">>, 330)

(* C3 amended: the same, with 329 -> NW (N starts at 330). *)
C3_AngleLabelsAmended ==
    Called =>
        /\ OneLabelWithAngle
        /\ angleIn = 29 => IsLabelled(angleOut, <<"N">>, 29)
        /\ angleIn = 30 => IsLabelled(angleOut, <<"N", "E">>, 30)
        /\ angleIn = 329 => IsLabelled(angleOut, <<"N", "W">>, 329)
        /\ angleIn = 330 => IsLabelled(angleOut, <<"N">>, 330)

C3_Witness ==
    /\ angleIn = 329
    /\ angleOut = <<"N", "W", " ", "(", "3", "2", "9", "°", ")">>

-----------------------------------------------------------------------------
BatteryLabels == {"Full", "High", "Medium", "Low"}

BatteryCalled == battIn.model # ""

(* C7: in each of the four profiles Full > High > Medium > Low; the label  *)
(* returned is that of the highest threshold the reading reaches, or       *)
(* "Very Low" when it reaches none; 5590 on the outdoor module is "Full"   *)
(* and 3999 is "Very Low"; a model without a profile makes the call raise. *)
C7_BatterySteps ==
    /\ \A m \in {MODULE_TYPE_OUTDOOR, MODULE_TYPE_WIND, MODULE_TYPE_RAIN,
                 MODULE_TYPE_INDOOR} :
        /\ m \in DOMAIN BATTERY_VALUES
        /\ Profile(m)["Full"] > Profile(m)["High"]
        /\ Profile(m)["High"] > Profile(m)["Medium"]
        /\ Profile(m)["Medium"] > Profile(m)["Low"]
    /\ BatteryCalled =>
        IF battIn.model \in DOMAIN BATTERY_VALUES
        THEN LET reached == {l \in BatteryLabels :
                                battIn.data >= Profile(battIn.model)[l]}
             IN  /\ battOut.k = "str"
                 /\ reached = {} => battOut.s = "Very Low"
                 /\ reached # {} =>
                      /\ battOut.s \in reached
                      /\ \A l \in reached :
                            Profile(battIn.model)[l] <= Profile(battIn.model)[battOut.s]
                 /\ (battIn.data = 5590 /\ battIn.model = MODULE_TYPE_OUTDOOR)
                        => battOut.s = "Full"
                 /\ (battIn.data = 3999 /\ battIn.model = MODULE_TYPE_OUTDOOR)
                        => battOut.s = "Very Low"
        ELSE IsRaise(battOut)

(* A reading that is exactly the outdoor module's High threshold *)
C7_Witness ==
    /\ battIn = [data |-> 5000, model |-> MODULE_TYPE_OUTDOOR]
    /\ battOut = Str("High")

-----------------------------------------------------------------------------
(* async_setup_entry has returned, every update signal was dispatched and  *)
(* every add_public_entities handler has finished.                         *)
AllHandlersFinished ==
    /\ setup.pc = "done"
    /\ pending = 0
    /\ \A id \in TaskIds : tasks[id].pc \in {"none", "done"}

(* C9: once all handlers have finished, the area entities are exactly one  *)
(* per configured area and supported public sensor type, and the public    *)
(* devices are those of the configured areas.                              *)
C9_EntitiesMatchLatestAreas ==
    AllHandlersFinished =>
        /\ entities = UNION {AreaEntities(a) : a \in options}
        /\ devices = options

(* C10: when discovery has returned, it has unregistered every data class  *)
(* as many times as it registered it.                                      *)
C10_NoNetSubscription ==
    AllHandlersFinished =>
        \A c \in DataClassEntries : regs[c] = unregs[c]

====
